---- MODULE Spec2Model ----
(***************************************************************************)
(* Model of the Assets component (src/src/renderer/editor/components/      *)
(* assets.tsx): the static registry of asset components, the refresh       *)
(* coordinator (_refreshAllAssets and its two flags), file ingestion       *)
(* (addFilesToAssets), the clean operation (clearUnusedAssets) and the     *)
(* cache snapshot / restore (GetCachedData / SetCachedData).               *)
(*                                                                         *)
(* Every invocation of an async method is a frame.  A frame runs           *)
(* synchronously up to its next await (the action of the call); when the   *)
(* awaited handler call or dialog settles the frame runs on to its next    *)
(* await or to its end (action Resume).  JavaScript is single threaded, so *)
(* each of these is atomic.  An invocation that is suspended holds a slot; *)
(* one that returns frees it.  The variables arrivals and last, and the    *)
(* frame fields visited, caught, rerun, failedAt and abandoned, are        *)
(* history: the program keeps no such thing.                               *)
(***************************************************************************)
EXTENDS Integers, Sequences, FiniteSets, TLC

\* ---------------------------------------------------------------- bounds
MaxComponents == 2      \* registry length explored
MaxFrames     == 2      \* invocations suspended at an await at the same time
MaxItems      == 1      \* longest item list a handler builds
MaxArrivals   == 2      \* coalesced calls counted per pass (the last value: or more)

\* ------------------------------------------------------------- constants
None == "none"          \* an omitted argument

\* The descriptor objects that asset modules pass to addAssetComponent.
Objects == {"o1", "o2", "o3"}

Title(o) == IF o = "o2" THEN "Textures" ELSE "Meshes"

Identifier(o) == IF o = "o1" THEN "meshes" ELSE IF o = "o2" THEN "textures" ELSE "prefabs"

Ctor(o) == IF o = "o1" THEN "MeshesAssets" ELSE IF o = "o2" THEN "TexturesAssets" ELSE "PrefabAssets"

Ctors == {Ctor(o) : o \in Objects}

\* Optional members of IAbstractAssets: PrefabAssets defines neither.
HasClean(o) == Ctor(o) # "PrefabAssets"

HasDropFiles(o) == Ctor(o) # "PrefabAssets"

\* An item as a handler builds it: the four persisted fields and one more.
Item(n) ==
  [id |-> n, key |-> n + 10, base64 |-> IF n % 2 = 0 THEN "undefined" ELSE "data",
   style |-> "s", ref |-> "element"]

\* The value of an items property: an array, or the JavaScript undefined.
Array(list) == [undef |-> FALSE, list |-> list]

UndefinedArray == [undef |-> TRUE, list |-> <<>>]

\* The item lists a handler's refresh may leave behind.
HandlerLists == { Array([k \in 1..n |-> Item(n - k + 1)]) : n \in 0..MaxItems }

VARIABLES
  assetComponents,   \* Assets._assetComponents: sequence of descriptor objects
  ids,               \* _id of each descriptor object (0: not assigned)
  ref,               \* whether the descriptor's _ref holds a mounted instance
  items,             \* _ref.items of each descriptor's instance
  observers,         \* callbacks held by each instance's updateAssetObservable
  isRefreshing,      \* Assets._isRefreshing
  needsRefresh,      \* Assets._needsRefresh
  frames,            \* the invocations suspended at an await, by slot
  openTasks,         \* slots holding a task feedback that is not closed
  arrivals,          \* history: calls coalesced during the pass in flight
  last               \* history: the events of the last step of an invocation

vars == <<assetComponents, ids, ref, items, observers, isRefreshing, needsRefresh,
          frames, openTasks, arrivals, last>>

registryVars == <<assetComponents, ids, ref>>

Slots == 1..MaxFrames

Min(S) == CHOOSE x \in S : \A y \in S : x <= y

Max(S) == CHOOSE x \in S : \A y \in S : y <= x

\* ---------------------------------------------------------------- frames
\* pc: "unused" (free slot), "refresh" / "drop" / "clean" / "confirm" (the await
\* the invocation is suspended at), "failed" (left by an exception), and, within
\* a step only, "pass" (running) and "done" (returned).
InitFrame ==
  [op |-> "none", pc |-> "unused", componentCtor |-> None, object |-> None,
   force |-> FALSE, i |-> 0, components |-> <<>>, rerun |-> FALSE,
   visited |-> <<>>, caught |-> FALSE, failedAt |-> "none", abandoned |-> {},
   result |-> "none"]

DoneFrame(op, result) == [InitFrame EXCEPT !.op = op, !.pc = "done", !.result = result]

\* An invocation left by an exception: what is kept is where it was.
FailedFrame(fr, at) ==
  [InitFrame EXCEPT !.op = fr.op, !.pc = "failed", !.failedAt = at, !.i = fr.i,
                    !.componentCtor = fr.componentCtor, !.rerun = fr.rerun]

\* History: an event of a step, with the number of coalesced calls where it matters.
Event(e, n) == [e |-> e, n |-> n]

HasEvent(events, e) == \E k \in 1..Len(events) : events[k].e = e

\* The part of the state one synchronous run of an invocation reads and writes.
Current(fr) ==
  [fr |-> fr, items |-> items, observers |-> observers,
   isRefreshing |-> isRefreshing, needsRefresh |-> needsRefresh,
   openTasks |-> openTasks, arrivals |-> arrivals,
   events |-> <<>>]

\* The slot a new invocation is suspended in: the lowest free one (0: none).
FreeSlot ==
  LET free == { f \in Slots : frames[f].pc = "unused" }
  IN  IF free = {} THEN 0 ELSE Min(free)

\* The state after the run s of the invocation in slot f. An invocation that
\* has returned frees its slot; one that needs a slot and finds none is not
\* explored.
Commit(f, s) ==
  /\ s.fr.pc = "done" \/ f # 0
  /\ frames' = IF f = 0 THEN frames
               ELSE [frames EXCEPT ![f] = IF s.fr.pc = "done" THEN InitFrame ELSE s.fr]
  /\ items' = s.items
  /\ observers' = s.observers
  /\ isRefreshing' = s.isRefreshing
  /\ needsRefresh' = s.needsRefresh
  /\ openTasks' = s.openTasks
  /\ arrivals' = s.arrivals
  /\ last' = s.events

\* ------------------------------------------------- _refreshAllAssets
\* Line 302: the guard of the in-flight flag.
InFlight_NoGuard(s) == FALSE

InFlight_Always(s) == TRUE

InFlight(s) == s.isRefreshing

\* Line 303: the value the pending-rerun flag takes when a call is coalesced.
CoalescedFlag_NotSet(s) == s.needsRefresh

CoalescedFlag(s) == TRUE

\* Lines 314-315: the descriptors the loop passes over.
Skip_NextToo(j, componentCtor) ==
  \/ componentCtor # None /\ componentCtor # Ctor(assetComponents[j])
  \/ ~ref[assetComponents[j]]
  \/ j > 1 /\ ~ref[assetComponents[j - 1]]

Skip_NoFilter(j, componentCtor) == ~ref[assetComponents[j]]

Skip(j, componentCtor) ==
  \/ componentCtor # None /\ componentCtor # Ctor(assetComponents[j])
  \/ ~ref[assetComponents[j]]

\* Index of the next descriptor at or after i0 the loop stops at (0: none left).
NextIndex(i0, componentCtor) ==
  LET left == { j \in i0..Len(assetComponents) : ~Skip(j, componentCtor) }
  IN  IF left = {} THEN 0 ELSE Min(left)

\* History: the loop goes from i0 to j (0: to the end) past a descriptor that
\* has an instance and that the filter admits.
Missed(i0, j, componentCtor) ==
  \E k \in i0..(IF j = 0 THEN Len(assetComponents) ELSE j - 1) :
     /\ ref[assetComponents[k]]
     /\ componentCtor \in {None, Ctor(assetComponents[k])}

\* Line 318: the item list after the force test.
ClearIfForced_Always(force, its) == Array(<<>>)

ClearIfForced(force, its) == IF force THEN Array(<<>>) ELSE its

\* Line 335: the follow-up call passes no argument.
RerunFrame_KeepArguments(fr) == [fr EXCEPT !.rerun = TRUE]

RerunFrame(fr) ==
  [fr EXCEPT !.componentCtor = None, !.object = None, !.force = FALSE, !.rerun = TRUE]

\* Lines 317-323: clear when forced, subscribe, call refresh and await it.
InvokeRefresh(j, s) ==
  LET o == assetComponents[j] IN
  IF s.items[o].undef
  THEN \* line 317 reads items.length of undefined: TypeError
       [s EXCEPT !.fr = FailedFrame([s.fr EXCEPT !.i = j], "length")]
  ELSE [s EXCEPT !.items[o] = ClearIfForced(s.fr.force, @),
                 !.observers[o] = @ + 1,
                 !.fr = [s.fr EXCEPT !.pc = "refresh", !.i = j, !.visited = Append(@, j)]]

RECURSIVE RefreshAllAssets(_, _)

\* Lines 329-336: close the task, leave the in-flight state, chain the rerun.
Finish_NoRerun(f, s) ==
  [s EXCEPT !.openTasks = IF s.fr.object = None THEN @ \ {f} ELSE @,
            !.isRefreshing = FALSE,
            !.events = Append(@, Event("end", s.arrivals)),
            !.fr = [s.fr EXCEPT !.pc = "returned", !.result = "returned"]]

Finish(f, s) ==
  LET s1 == [s EXCEPT !.openTasks = IF s.fr.object = None THEN @ \ {f} ELSE @,
                      !.isRefreshing = FALSE,
                      !.events = Append(@, Event("end", s.arrivals))]
  IN  IF s1.needsRefresh
      THEN RefreshAllAssets(f, [s1 EXCEPT !.needsRefresh = FALSE, !.fr = RerunFrame(s.fr)])
      ELSE [s1 EXCEPT !.fr = [s.fr EXCEPT !.pc = "returned", !.result = "returned"]]

\* Lines 313-327: the loop from registry index i0 up to its next await.
Loop(f, i0, s) ==
  LET j  == NextIndex(i0, s.fr.componentCtor)
      s1 == IF Missed(i0, j, s.fr.componentCtor)
            THEN [s EXCEPT !.events = Append(@, Event("missed", 0))] ELSE s
  IN  IF j = 0 THEN Finish(f, s1) ELSE InvokeRefresh(j, s1)

\* Lines 301-311: one invocation of _refreshAllAssets, up to its first await.
RefreshAllAssets(f, s) ==
  IF InFlight(s)
  THEN [s EXCEPT !.needsRefresh = CoalescedFlag(s),
                 !.arrivals = IF @ < MaxArrivals THEN @ + 1 ELSE @,
                 !.events = Append(@, Event("coalesced", 0)),
                 !.fr = [s.fr EXCEPT !.pc = "returned", !.result = "coalesced"]]
  ELSE Loop(f, 1, [s EXCEPT !.openTasks = IF s.fr.object = None THEN @ \cup {f} ELSE @,
                            !.isRefreshing = TRUE,
                            !.arrivals = 0,
                            !.events = Append(@, Event("begin", 0)),
                            !.fr = [s.fr EXCEPT !.visited = <<>>]])

\* What the caller of _refreshAllAssets does once its promise is fulfilled:
\* refresh and forceRefresh return it, addFilesToAssets goes on to line 295.
Return(s) ==
  IF s.fr.pc # "returned" THEN s
  ELSE IF s.fr.op = "addFiles"
       THEN [s EXCEPT !.events = Append(@, Event("inspector", 0)),
                      !.fr = DoneFrame("addFiles", "returned")]
       ELSE [s EXCEPT !.fr = DoneFrame(s.fr.op, s.fr.result)]

\* History: the descriptors after the awaited one that have an instance and
\* that the filter admits.
Remaining(fr) ==
  { j \in (fr.i + 1)..Len(assetComponents) :
      ref[assetComponents[j]] /\ fr.componentCtor \in {None, Ctor(assetComponents[j])} }

\* Lines 324-327 after the await of line 323.
ResumeRefresh(f, outcome, s) ==
  IF outcome = "rejected"
  THEN \* no try around line 323: the rejection leaves _refreshAllAssets
       [s EXCEPT !.fr = [FailedFrame(s.fr, "refresh") EXCEPT !.abandoned = Remaining(s.fr)]]
  ELSE Loop(f, s.fr.i + 1, [s EXCEPT !.observers[assetComponents[s.fr.i]] = @ - 1])

\* ------------------------------------------------- addFilesToAssets
\* Line 274: the guard that rejects an ingestion.
IngestionBusy_OnRerunFlag(s) == s.needsRefresh

IngestionBusy(s) == s.isRefreshing

\* Line 288: the progress given to updateTaskFeedback after the handler of
\* loop index i (from 0), `length / i * 100`, as a fraction; the denominator
\* 0 is a division by zero (Infinity in JavaScript).
IngestionProgress(length, i) == [num |-> length * 100, den |-> i]

\* Line 279: the descriptors with an instance, in registry order.
LiveComponents ==
  LET idx == { j \in 1..Len(assetComponents) : ref[assetComponents[j]] }
      nth[k \in 0..Len(assetComponents)] ==
        IF k = 0 THEN 0 ELSE Min({ j \in idx : j > nth[k - 1] })
  IN  [k \in 1..Cardinality(idx) |-> assetComponents[nth[k]]]

\* Lines 282-293 from position k: call onDropFiles where it is defined, then
\* close the task and call _refreshAllAssets.
DropLoop(f, k, s) ==
  LET comps == s.fr.components
      left == { n \in k..Len(comps) : HasDropFiles(comps[n]) }
  IN  IF left # {}
      THEN [s EXCEPT !.fr = [s.fr EXCEPT !.pc = "drop", !.i = Min(left)]]
      ELSE Return(RefreshAllAssets(f,
             [s EXCEPT !.openTasks = @ \ {f},
                       !.fr = [s.fr EXCEPT !.pc = "pass", !.i = 0]]))

\* Lines 273-281: the call of addFilesToAssets up to its first await.
AddFilesToAssets(f, s) ==
  IF IngestionBusy(s)
  THEN \* Alert.Show, line 275
       [s EXCEPT !.events = Append(@, Event("busy", 0)), !.fr = DoneFrame("addFiles", "busy")]
  ELSE DropLoop(f, 1, [s EXCEPT !.openTasks = @ \cup {f},
                                !.fr = [InitFrame EXCEPT !.op = "addFiles",
                                                        !.components = LiveComponents]])

\* Line 286 after its await: a rejection is not caught in addFilesToAssets.
ResumeDrop(f, outcome, s) ==
  IF outcome = "rejected"
  THEN [s EXCEPT !.fr = FailedFrame(s.fr, "drop")]
  ELSE DropLoop(f, s.fr.i + 1, s)

\* ------------------------------------------------- clearUnusedAssets
\* Line 191: the descriptors whose instance defines clean, in registry order.
CleanComponents ==
  LET idx == { j \in 1..Len(assetComponents) :
                 ref[assetComponents[j]] /\ HasClean(assetComponents[j]) }
      nth[k \in 0..Len(assetComponents)] ==
        IF k = 0 THEN 0 ELSE Min({ j \in idx : j > nth[k - 1] })
  IN  [k \in 1..Cardinality(idx) |-> assetComponents[nth[k]]]

\* Lines 199-206: the try / catch around one handler's clean.
CleanCaught_NoCatch(outcome) == outcome = "resolved"

CleanCaught(outcome) == TRUE

\* Lines 198-209 from position k.
CleanLoop(f, k, s) ==
  IF k <= Len(s.fr.components)
  THEN [s EXCEPT !.fr = [s.fr EXCEPT !.pc = "clean", !.i = k, !.visited = Append(@, k)]]
  ELSE [s EXCEPT !.openTasks = @ \ {f}, !.fr = DoneFrame("clean", "returned")]

\* Lines 187-196 after the confirmation, and lines 201-206 after a clean.
ResumeClean(f, outcome, s) ==
  IF s.fr.pc = "confirm"
  THEN IF outcome = "declined"
       THEN [s EXCEPT !.fr = DoneFrame("clean", "declined")]
       ELSE CleanLoop(f, 1, [s EXCEPT !.openTasks = @ \cup {f},
                                      !.fr = [s.fr EXCEPT !.components = CleanComponents]])
  ELSE IF CleanCaught(outcome)
       THEN CleanLoop(f, s.fr.i + 1,
                      [s EXCEPT !.fr = [s.fr EXCEPT !.caught = @ \/ outcome = "rejected"]])
       ELSE [s EXCEPT !.fr = FailedFrame(s.fr, "clean")]

\* ------------------------------------------------- cache snapshot / restore
\* Lines 81-85: the copy of one item that GetCachedData keeps.
Persisted(it) == [id |-> it.id, key |-> it.key, base64 |-> it.base64, style |-> it.style]

Titles == { Title(assetComponents[j]) : j \in 1..Len(assetComponents) }

\* Lines 79-87: forEach assigns result[ac.title], a later descriptor overwriting
\* an earlier one of the same title; no instance gives undefined.
SnapshotOf(t) ==
  LET last_ == Max({ j \in 1..Len(assetComponents) : Title(assetComponents[j]) = t })
      o == assetComponents[last_]
  IN  IF ref[o]
      THEN Array([k \in 1..Len(items[o].list) |-> Persisted(items[o].list[k])])
      ELSE UndefinedArray

GetCachedData == [t \in Titles |-> SnapshotOf(t)]

\* Line 80 reads items.map: it throws when an instance's items is undefined.
GetCachedDataThrows ==
  \E j \in 1..Len(assetComponents) :
     ref[assetComponents[j]] /\ items[assetComponents[j]].undef

\* Line 96: find returns the first descriptor of that title (0: none).
FindByTitle_Last(t) ==
  LET m == { j \in 1..Len(assetComponents) : Title(assetComponents[j]) = t }
  IN  IF m = {} THEN 0 ELSE Max(m)

FindByTitle(t) ==
  LET m == { j \in 1..Len(assetComponents) : Title(assetComponents[j]) = t }
  IN  IF m = {} THEN 0 ELSE Min(m)

\* Lines 95-100: the item lists after SetCachedData(data).
Restored_ClearsOthers(data) ==
  [o \in Objects |->
     IF \E t \in DOMAIN data : FindByTitle(t) # 0 /\ assetComponents[FindByTitle(t)] = o /\ ref[o]
     THEN data[Title(o)]
     ELSE Array(<<>>)]

Restored(data) ==
  [o \in Objects |->
     IF \E t \in DOMAIN data : FindByTitle(t) # 0 /\ assetComponents[FindByTitle(t)] = o /\ ref[o]
     THEN data[Title(o)]
     ELSE items[o]]

\* ------------------------------------------------------------------ lookups
\* The outcome of a synchronous method: the value it returns, or a TypeError.
Returned(v) == [throws |-> FALSE, value |-> v]

Thrown == [throws |-> TRUE]

\* The arguments of the lookups: the registered modules' and one unknown.
Identifiers == {Identifier(o) : o \in Objects} \cup {"unknown"}

LookupCtors == Ctors \cup {"UnknownAssets"}

\* Lines 236, 258: find returns the first descriptor of that constructor (0: none).
FindByCtor(c) ==
  LET m == { j \in 1..Len(assetComponents) : Ctor(assetComponents[j]) = c }
  IN  IF m = {} THEN 0 ELSE Min(m)

\* Line 247: find returns the first descriptor of that identifier (0: none).
FindByIdentifier(id) ==
  LET m == { j \in 1..Len(assetComponents) : Identifier(assetComponents[j]) = id }
  IN  IF m = {} THEN 0 ELSE Min(m)

\* Lines 235-240: getAssetsOf(componentCtor): _ref?.items, or undefined.
getAssetsOf(c) ==
  LET j == FindByCtor(c)
  IN  IF j # 0 /\ ref[assetComponents[j]]
      THEN Returned(items[assetComponents[j]])
      ELSE Returned(UndefinedArray)

\* Line 250: the copy of one item that getAssetsOfComponentId returns.
Summary(it) == [id |-> it.id, base64 |-> it.base64, key |-> it.key]

\* Lines 246-251: getAssetsOfComponentId(id): the non-null assertion of line
\* 250 is erased at run time and .map of undefined is a TypeError.
getAssetsOfComponentId(id) ==
  LET j == FindByIdentifier(id)
  IN  IF j = 0 THEN Returned(Array(<<>>))
      ELSE LET r == getAssetsOf(Ctor(assetComponents[j])).value
           IN  IF r.undef THEN Thrown
               ELSE Returned(Array([k \in 1..Len(r.list) |-> Summary(r.list[k])]))

\* Lines 257-260: getComponent(componentCtor): the instance, or null.
getComponent(c) ==
  LET j == FindByCtor(c)
  IN  IF j # 0 /\ ref[assetComponents[j]]
      THEN Returned(assetComponents[j])
      ELSE Returned("null")

\* ------------------------------------------------------------------ state
Init ==
  /\ assetComponents = <<>>
  /\ ids = [o \in Objects |-> 0]
  /\ ref = [o \in Objects |-> FALSE]
  /\ items = [o \in Objects |-> Array(<<>>)]
  /\ observers = [o \in Objects |-> 0]
  /\ isRefreshing = FALSE
  /\ needsRefresh = FALSE
  /\ frames = [f \in Slots |-> InitFrame]
  /\ openTasks = {}
  /\ arrivals = 0
  /\ last = <<>>

\* ---------------------------------------------------------------- actions
\* Lines 70-73: Assets.addAssetComponent(component).
addAssetComponent(o) ==
  /\ Len(assetComponents) < MaxComponents
  /\ ids' = [ids EXCEPT ![o] = Len(assetComponents) + 1]      \* Tools.RandomId()
  /\ assetComponents' = Append(assetComponents, o)
  /\ UNCHANGED <<ref, items, observers, isRefreshing, needsRefresh, frames, openTasks,
                 arrivals, last>>

\* Line 63: React hands the mounted instance to _refHandler.getAssetComponent.
getAssetComponent(o) ==
  /\ \E j \in 1..Len(assetComponents) : assetComponents[j] = o
  /\ ~ref[o]
  /\ ref' = [ref EXCEPT ![o] = TRUE]
  /\ items' = [items EXCEPT ![o] = Array(<<>>)]
  /\ UNCHANGED <<assetComponents, ids, observers, isRefreshing, needsRefresh, frames,
                 openTasks, arrivals, last>>

\* Lines 171-173: refresh(component, object).
refresh(componentCtor, object) ==
  /\ Commit(FreeSlot, Return(RefreshAllAssets(FreeSlot,
        Current([InitFrame EXCEPT !.op = "refresh", !.pc = "pass",
                                  !.componentCtor = componentCtor, !.object = object]))))
  /\ UNCHANGED registryVars

\* Lines 179-181: forceRefresh(component).
forceRefresh(componentCtor) ==
  /\ Commit(FreeSlot, Return(RefreshAllAssets(FreeSlot,
        Current([InitFrame EXCEPT !.op = "refresh", !.pc = "pass",
                                  !.componentCtor = componentCtor, !.force = TRUE]))))
  /\ UNCHANGED registryVars

\* Lines 273-296: addFilesToAssets(files).
addFilesToAssets ==
  /\ Commit(FreeSlot, AddFilesToAssets(FreeSlot, Current(InitFrame)))
  /\ UNCHANGED registryVars

\* Lines 186-187: clearUnusedAssets() up to the confirmation dialog.
clearUnusedAssets ==
  /\ Commit(FreeSlot,
            Current([InitFrame EXCEPT !.op = "clean", !.pc = "confirm"]))
  /\ UNCHANGED registryVars

\* The handler whose refresh is awaited rebuilds its item list while it runs.
HandlerWrites(f) ==
  /\ frames[f].pc = "refresh"
  /\ \E its \in HandlerLists :
       items' = [items EXCEPT ![assetComponents[frames[f].i]] = its]
  /\ UNCHANGED <<registryVars, observers, isRefreshing, needsRefresh, frames, openTasks,
                 arrivals, last>>

\* The awaited promise settles (a handler's refresh, onDropFiles or clean is
\* fulfilled or rejected, the confirmation dialog is answered) and the
\* continuation runs up to the next await or to the end.
Resume(f) ==
  /\ \/ /\ frames[f].pc = "refresh"
        /\ \E outcome \in {"resolved", "rejected"} :
             Commit(f, Return(ResumeRefresh(f, outcome, Current(frames[f]))))
     \/ /\ frames[f].pc = "drop"
        /\ \E outcome \in {"resolved", "rejected"} :
             Commit(f, ResumeDrop(f, outcome, Current(frames[f])))
     \/ /\ frames[f].pc = "clean"
        /\ \E outcome \in {"resolved", "rejected"} :
             Commit(f, ResumeClean(f, outcome, Current(frames[f])))
     \/ /\ frames[f].pc = "confirm"
        /\ \E outcome \in {"accepted", "declined"} :
             Commit(f, ResumeClean(f, outcome, Current(frames[f])))
  /\ UNCHANGED registryVars

\* The saved projects SetCachedData is given, besides what GetCachedData has
\* just returned: project files written earlier.
ProjectFiles == { [t \in {"Meshes"} |-> Array(<<Persisted(Item(1))>>)] }

\* The constructors refresh and forceRefresh are given as a filter.
Filters == {None, "MeshesAssets"}

\* Lines 94-101: Assets.SetCachedData(data).
SetCachedData(data) ==
  /\ items' = Restored(data)
  /\ UNCHANGED <<registryVars, observers, isRefreshing, needsRefresh, frames,
                 openTasks, arrivals, last>>

Next ==
  \/ \E o \in Objects : addAssetComponent(o)
  \/ \E o \in Objects : getAssetComponent(o)
  \/ \E c \in Filters, x \in {None, "object"} : refresh(c, x)
  \/ \E c \in Filters : forceRefresh(c)
  \/ addFilesToAssets
  \/ clearUnusedAssets
  \/ \E f \in Slots : HandlerWrites(f)
  \/ \E f \in Slots : Resume(f)
  \/ \E data \in ProjectFiles : SetCachedData(data)
  \/ ~GetCachedDataThrows /\ SetCachedData(GetCachedData)

Spec == Init /\ [][Next]_vars

\* ================================================================ claims
InPass(f) == frames[f].pc = "refresh"

Handler(f) == assetComponents[frames[f].i]

\* C1: at most one refresh pass is executing at any time: no two invocations
\* are suspended in a handler's refresh() at the same moment.
C1_OnePassAtATime == Cardinality({ f \in Slots : InPass(f) }) <= 1

\* A pass is in flight, calls were coalesced during it, the last of them the
\* _refreshAllAssets call that ends an ingestion.
C1_Witness ==
  /\ \E f \in Slots : InPass(f)
  /\ arrivals = 2
  /\ HasEvent(last, "coalesced") /\ HasEvent(last, "inspector")

\* The begin and end events of passes in the last step.
PassEvents == SelectSeq(last, LAMBDA ev : ev.e \in {"begin", "end"})

\* C2: a pass that ends after N >= 1 coalesced calls is followed at once by
\* exactly one new pass, a pass that ends after none is followed by none, and
\* a pass begins in no other way than by a call or as such a follow-up.
C2_Coalescing ==
  \A k \in 1..Len(PassEvents) :
     /\ (PassEvents[k].e = "end" /\ PassEvents[k].n >= 1)
          => k < Len(PassEvents) /\ PassEvents[k + 1].e = "begin"
     /\ (PassEvents[k].e = "end" /\ PassEvents[k].n = 0) => k = Len(PassEvents)
     /\ (PassEvents[k].e = "begin" /\ k > 1)
          => PassEvents[k - 1].e = "end" /\ PassEvents[k - 1].n >= 1

\* A pass has ended after two coalesced calls and the one follow-up pass,
\* begun in the same step, is refreshing the second of two handlers.
C2_Witness ==
  /\ \E k \in 1..Len(last) : last[k] = Event("end", 2)
  /\ PassEvents = <<Event("end", 2), Event("begin", 0)>>
  /\ \E f \in Slots : InPass(f) /\ frames[f].rerun /\ frames[f].visited = <<1>>
                      /\ Len(assetComponents) = 2 /\ ref[assetComponents[2]]

\* C3: a follow-up pass carries no filter, no object and no force, holds a
\* task feedback, and no step of it changes an item list.
C3_RerunIsFull ==
  /\ [](\A f \in Slots :
          (InPass(f) /\ frames[f].rerun)
            => /\ frames[f].componentCtor = None
               /\ frames[f].object = None
               /\ ~frames[f].force
               /\ f \in openTasks)
  /\ [][\A f \in Slots :
          (frames'[f] # frames[f] /\ frames'[f].rerun) => items' = items]_vars

\* A follow-up pass has refreshed two handlers of different constructors, the
\* first of which holds items.
C3_Witness ==
  \E f \in Slots :
     /\ InPass(f) /\ frames[f].rerun /\ frames[f].visited = <<1, 2>>
     /\ Ctor(assetComponents[1]) # Ctor(assetComponents[2])
     /\ items[assetComponents[1]].list # <<>>

\* C4: a pass calls refresh() on the registry entries in registration order,
\* each at most once, and never goes past an entry that has an instance and
\* that the filter admits.
C4_RegistrationOrder ==
  /\ ~HasEvent(last, "missed")
  /\ \A f \in Slots :
       InPass(f) =>
         LET v == frames[f].visited IN
         /\ v # <<>> /\ v[Len(v)] = frames[f].i
         /\ \A a, b \in 1..Len(v) : a < b => v[a] < v[b]

\* An unfiltered pass is refreshing the second handler after the first.
C4_Witness ==
  \E f \in Slots :
     InPass(f) /\ frames[f].componentCtor = None /\ frames[f].visited = <<1, 2>>

\* A step of an invocation: every such step changes one of these.
InvocationStep ==
  \/ frames' # frames \/ last' # last
  \/ needsRefresh' # needsRefresh \/ isRefreshing' # isRefreshing

\* C5: when a forced pass calls a handler's refresh() that handler's item
\* list is empty, and a step of an invocation changes no item list but that
\* of the handler a forced pass is calling.
C5_ForceClears ==
  [][/\ \A f \in Slots :
          (frames'[f] # frames[f] /\ frames'[f].pc = "refresh" /\ frames'[f].force)
            => items'[assetComponents[frames'[f].i]] = Array(<<>>)
     /\ InvocationStep =>
          \A o \in Objects :
             items'[o] # items[o] =>
               \E f \in Slots : /\ frames'[f] # frames[f]
                                /\ frames'[f].pc = "refresh" /\ frames'[f].force
                                /\ assetComponents[frames'[f].i] = o]_vars

\* A forced pass is refreshing its second handler, whose list is empty.
C5_Witness ==
  \E f \in Slots :
     /\ InPass(f) /\ frames[f].force /\ frames[f].visited = <<1, 2>>
     /\ items[Handler(f)] = Array(<<>>)

\* C6 (as claimed): when a handler's refresh() fails, no handler after it
\* that has an instance and that the filter admits is left without a call.
C6_Claim ==
  \A f \in Slots :
     (frames[f].pc = "failed" /\ frames[f].failedAt = "refresh")
       => frames[f].abandoned = {}

\* C7 (as claimed): whenever no pass is executing, the coordinator is Idle.
C7_Claim ==
  (\A f \in Slots : ~InPass(f)) => (~isRefreshing /\ ~needsRefresh)

\* The four persisted fields of an item list, in order.
PersistedList(v) ==
  IF v.undef THEN v ELSE Array([k \in 1..Len(v.list) |-> Persisted(v.list[k])])

\* C8 (as claimed): SetCachedData(GetCachedData()) leaves the item list of
\* every handler with an instance as it was, on the persisted fields.
C8_Claim ==
  ~GetCachedDataThrows =>
    \A j \in 1..Len(assetComponents) :
       ref[assetComponents[j]] =>
         PersistedList(Restored(GetCachedData)[assetComponents[j]])
           = PersistedList(items[assetComponents[j]])

\* C9: no ingestion gets under way while a pass is in flight, and the step
\* that shows the busy notice changes nothing else.
C9_BusyIngestion ==
  /\ [][isRefreshing =>
          ~\E f \in Slots : frames[f].pc = "unused" /\ frames'[f].op = "addFiles"]_vars
  /\ [][(last' # last /\ HasEvent(last', "busy"))
          => /\ isRefreshing /\ last' = <<Event("busy", 0)>>
             /\ UNCHANGED <<assetComponents, ids, ref, items, observers, isRefreshing,
                            needsRefresh, frames, openTasks, arrivals>>]_vars

\* An ingestion has just been rejected while a pass was refreshing a handler.
C9_Witness ==
  /\ last = <<Event("busy", 0)>>
  /\ \E f \in Slots : InPass(f) /\ HasDropFiles(Handler(f))

\* C10: clearUnusedAssets never ends by an exception; while it awaits a
\* clean() it holds its task and has called clean() on every earlier entry
\* of its list; after a clean() settles, either way, it calls the next one
\* or, after the last, closes its task and returns.
C10_CleanGoesOn ==
  /\ [](\A f \in Slots :
          frames[f].op = "clean" =>
            /\ frames[f].pc # "failed"
            /\ frames[f].pc = "clean" =>
                 /\ f \in openTasks
                 /\ frames[f].visited = [k \in 1..frames[f].i |-> k])
  /\ [][\A f \in Slots :
          (frames[f].pc = "clean" /\ frames'[f] # frames[f]) =>
            \/ /\ frames[f].i < Len(frames[f].components)
               /\ frames'[f].pc = "clean"
               /\ frames'[f].i = frames[f].i + 1
               /\ frames'[f].components = frames[f].components
            \/ /\ frames[f].i = Len(frames[f].components)
               /\ frames'[f].pc = "unused"
               /\ f \notin openTasks']_vars

\* The clean() of the second handler is awaited after the first one's failed.
C10_Witness ==
  \E f \in Slots :
     /\ frames[f].pc = "clean" /\ frames[f].caught /\ frames[f].i = 2
     /\ frames[f].components[1] # frames[f].components[2]

\* C11 (as claimed): no lookup throws, whatever the registry and the argument.
C11_Claim ==
  /\ \A c \in LookupCtors : ~getAssetsOf(c).throws /\ ~getComponent(c).throws
  /\ \A id \in Identifiers : ~getAssetsOfComponentId(id).throws

\* C12 (as claimed): the inspector is refreshed only in the step in which a
\* pass of the ingestion's own _refreshAllAssets call has just ended.
C12_Claim ==
  \A k \in 1..Len(last) :
     last[k].e = "inspector" => (k > 1 /\ last[k - 1].e = "end")

\* C13: a changed invocation that awaits a refresh() has just called it; it
\* does so only when no other invocation awaits one, and, within a pass,
\* only in the step in which the previous handler's refresh() has completed
\* and its observer has been removed.
C13_Sequential ==
  [][\A f \in Slots :
       (frames'[f] # frames[f] /\ frames'[f].pc = "refresh") =>
         /\ \A g \in Slots \ {f} : ~InPass(g)
         /\ (InPass(f) /\ ~HasEvent(last', "begin")) =>
              LET p == assetComponents[frames[f].i]
                  n == assetComponents[frames'[f].i]
              IN  /\ frames'[f].i > frames[f].i
                  /\ observers'[p] = observers[p] - 1 + (IF n = p THEN 1 ELSE 0)]_vars

\* A pass awaits its second handler while another invocation, a clean, is
\* suspended too.
C13_Witness ==
  \E f, g \in Slots :
     /\ InPass(f) /\ frames[f].visited = <<1, 2>>
     /\ assetComponents[1] # assetComponents[2]
     /\ frames[g].pc = "clean"

\* C14 (as claimed): while an ingestion awaits an onDropFiles, no invocation
\* awaits a handler's refresh() and no other ingestion awaits an onDropFiles.
C14_Claim ==
  \A f \in Slots :
     frames[f].pc = "drop" =>
       \A g \in Slots \ {f} : frames[g].pc \notin {"refresh", "drop"}

\* C15 (as claimed): no ingestion is left by the failure of an onDropFiles,
\* its task feedback open.
C15_Claim ==
  \A f \in Slots :
     frames[f].op = "addFiles" =>
       ~(frames[f].pc = "failed" /\ frames[f].failedAt = "drop" /\ f \in openTasks)

\* C16 (as claimed): a handler's observable holds exactly the observers of
\* the passes that await that handler's refresh().
C16_Claim ==
  \A j \in 1..Len(assetComponents) :
     observers[assetComponents[j]]
       = Cardinality({ f \in Slots : InPass(f) /\ Handler(f) = assetComponents[j] })

\* C17 (as claimed): a pass holds a task feedback exactly if it has no
\* object, and a pass left by a handler's failure holds none.
C17_Claim ==
  \A f \in Slots :
     /\ InPass(f) => (f \in openTasks <=> frames[f].object = None)
     /\ (frames[f].pc = "failed" /\ frames[f].failedAt = "refresh") => f \notin openTasks

\* The other handlers of a pass filtered by constructor c are left alone.
OthersUntouched(c) ==
  \A o \in Objects :
     Ctor(o) # c => (items'[o] = items[o] /\ observers'[o] = observers[o])

\* C18: a pass given a constructor calls refresh() only on handlers of that
\* constructor, and its steps change neither the item list nor the
\* observers of a handler of another constructor, also under force.
C18_FilterFrame ==
  /\ [](\A f \in Slots :
          (InPass(f) /\ frames[f].componentCtor # None) =>
            \A k \in 1..Len(frames[f].visited) :
               Ctor(assetComponents[frames[f].visited[k]]) = frames[f].componentCtor)
  /\ [][\A f \in Slots :
          frames'[f] # frames[f] =>
            /\ (frames'[f].pc = "refresh" /\ frames'[f].componentCtor # None)
                 => OthersUntouched(frames'[f].componentCtor)
            /\ (InPass(f) /\ frames[f].componentCtor # None
                  /\ frames'[f].pc \in {"unused", "failed"})
                 => OthersUntouched(frames[f].componentCtor)]_vars

\* A forced pass filtered by a constructor awaits the second handler, the
\* first being a mounted handler of another constructor that holds items.
C18_Witness ==
  \E f \in Slots :
     /\ InPass(f) /\ frames[f].force /\ frames[f].componentCtor = "MeshesAssets"
     /\ frames[f].visited = <<2>>
     /\ ref[assetComponents[1]] /\ items[assetComponents[1]].list # <<>>

\* C19 (as claimed): SetCachedData writes the list of a title into the last
\* registered descriptor of that title, when it has an instance.
C19_Claim ==
  \A data \in ProjectFiles : \A t \in DOMAIN data :
     LET j == FindByTitle_Last(t)
     IN  (j # 0 /\ ref[assetComponents[j]])
           => Restored(data)[assetComponents[j]] = data[t]

\* The arguments of SetCachedData: a project file, or the snapshot just taken.
RestoreInputs ==
  ProjectFiles \cup (IF GetCachedDataThrows THEN {} ELSE {GetCachedData})

Registered(o) == \E j \in 1..Len(assetComponents) : assetComponents[j] = o

\* C20: SetCachedData(data) changes the item list of a handler only if it is
\* registered with an instance and its title is a key of data, and then to
\* data's list of that title; a title with no descriptor or no instance is
\* passed over, and the first descriptor of a title, if it has an instance,
\* does get the list.
C20_RestoreFrame ==
  \A data \in RestoreInputs :
     /\ \A o \in Objects :
          Restored(data)[o] # items[o] =>
            /\ Registered(o) /\ ref[o]
            /\ Title(o) \in DOMAIN data
            /\ Restored(data)[o] = data[Title(o)]
     /\ \A t \in DOMAIN data :
          (FindByTitle(t) # 0 /\ ref[assetComponents[FindByTitle(t)]])
            => Restored(data)[assetComponents[FindByTitle(t)]] = data[t]

\* A project file with the title Meshes only has been restored: the handler
\* of that title holds the file's list, the mounted handler of the other
\* title still holds the items it built, and a third title is not registered.
C20_Witness ==
  /\ assetComponents = <<"o1", "o2">>
  /\ ref["o1"] /\ ref["o2"]
  /\ items["o1"] = Array(<<Persisted(Item(1))>>)
  /\ items["o2"] = Array(<<Item(1)>>)

\* C21 (as claimed): the _id of a registry entry is the one given at its own
\* registration, and the _ids of the entries are pairwise distinct.
C21_Claim ==
  /\ \A j \in 1..Len(assetComponents) : ids[assetComponents[j]] = j
  /\ \A j, k \in 1..Len(assetComponents) :
       j # k => ids[assetComponents[j]] # ids[assetComponents[k]]

\* C22: the pending-rerun flag is set only while the in-flight flag is set.
C22_NoIdlePending == needsRefresh => isRefreshing

\* A rerun is pending while the pass of an ingestion awaits a handler.
C22_Witness ==
  /\ needsRefresh /\ isRefreshing
  /\ \E f \in Slots : InPass(f) /\ frames[f].op = "addFiles"

\* C23: a call that is coalesced returns in its own step, the pass in flight
\* going on, and an invocation that awaits a handler's refresh() returns
\* only in a step that ends a pass with no rerun pending, after which no
\* pass is in flight and neither flag is set.
C23_CompletionOrder ==
  /\ [][HasEvent(last', "coalesced") =>
          /\ isRefreshing /\ isRefreshing' /\ needsRefresh'
          /\ \A f \in Slots : frames'[f] # frames[f] => frames'[f].pc = "unused"
          /\ \A f \in Slots : InPass(f) => frames'[f] = frames[f]]_vars
  /\ [][\A f \in Slots :
          (InPass(f) /\ frames'[f].pc = "unused") =>
            /\ ~isRefreshing' /\ ~needsRefresh'
            /\ \A g \in Slots : frames'[g].pc # "refresh"
            /\ PassEvents' # <<>>
            /\ PassEvents'[Len(PassEvents')] = Event("end", 0)]_vars

\* A call has just been coalesced and has returned, while the call that began
\* the passes is still awaiting a handler in its follow-up pass.
C23_Witness ==
  /\ last = <<Event("coalesced", 0)>>
  /\ \E f \in Slots : InPass(f) /\ frames[f].rerun /\ frames[f].op = "refresh"

\* The progress values an ingestion has given so far: one after each handler
\* before the one it awaits, all of them once its loop has ended.
ReportedCount(f) ==
  IF frames[f].op # "addFiles" THEN 0
  ELSE IF frames[f].pc = "drop" THEN frames[f].i - 1
  ELSE IF frames[f].pc = "refresh" THEN Len(frames[f].components)
  ELSE 0

\* C24 (as claimed): every progress value of an ingestion is a quotient by a
\* number other than 0, lies between 0 and 100, is not less than the one
\* before it, and the one after the last handler is 100.
C24_Claim ==
  \A f \in Slots :
     LET n == Len(frames[f].components)
         p(k) == IngestionProgress(n, k - 1)
     IN  \A k \in 1..ReportedCount(f) :
            /\ p(k).den # 0
            /\ 0 <= p(k).num /\ p(k).num <= 100 * p(k).den
            /\ k > 1 => p(k - 1).num * p(k).den <= p(k).num * p(k - 1).den
            /\ k = n => p(k).num = 100 * p(k).den

====
